---- MODULE Spec2Model ----
(***************************************************************************)
(* Model of deanonymizer.py: the batch run process_response_files, the     *)
(* identity scan infer_user_id, the envelope decryption hybrid_decrypt and *)
(* the placeholder substitution reconstruct_text.                          *)
(*                                                                         *)
(* Strings are sequences of one-character strings.  A text under           *)
(* reconstruction carries, for every character, the number of the mapping  *)
(* pair that inserted it (0 for a character of the input text), so that    *)
(* what a later pair does to an earlier pair's insertion can be stated.    *)
(***************************************************************************)
EXTENDS Integers, Sequences, FiniteSets, TLC

\* Bounds of the explored input space.
MaxRecords == 3
MaxCatalog == 3
MaxTextLen == 3
MaxPairs == 2

VARIABLES
    keyFile,        \* content of the file at private_key_path
    catalog,        \* the *.pem files of public_keys_folder, in rglob order
    batch,          \* response_files: the entries of response_folder, in rglob order
    mappingFiles,   \* output_folder: stem |-> content of <stem>_processed.json
    pc,             \* position in process_response_files
    user_id,        \* the identity resolved by infer_user_id
    idx,            \* number of records the loop has visited
    outputs,        \* reconstructed_folder: output file |-> text written
    printed,        \* the lines printed so far
    raised,         \* the exception that left process_response_files, if any
    rIn,            \* reconstruct_text: the anonymized_text argument
    rMap,           \* reconstruct_text: the entity_mapping argument
    rText,          \* reconstruct_text: the local anonymized_text, characters tagged
    rk,             \* reconstruct_text: the next pair of the loop
    rpc,            \* reconstruct_text: position
    rOut            \* reconstruct_text: the returned string

runVars == <<keyFile, catalog, batch, mappingFiles, pc, user_id, idx, outputs, printed, raised>>
reconVars == <<rIn, rMap, rText, rk, rpc, rOut>>
vars == <<keyFile, catalog, batch, mappingFiles, pc, user_id, idx, outputs, printed,
          raised, rIn, rMap, rText, rk, rpc, rOut>>

SeqsUpTo(S, n) == UNION {[1..k -> S] : k \in 0..n}

----------------------------------------------------------------------------
(* Strings *)

\* A plain string as characters of the input text (inserted by no pair), or
\* as the characters pair i inserts.
Tagged(s, i) == [k \in 1..Len(s) |-> [ch |-> s[k], by |-> i]]

\* The plain string of a tagged text.
Chars(t) == [k \in 1..Len(t) |-> t[k].ch]

\* old occurs in the tagged text s at position pos.
MatchAt(s, old, pos) ==
    /\ pos + Len(old) - 1 <= Len(s)
    /\ \A k \in 1..Len(old) : s[pos + k - 1].ch = old[k]

RECURSIVE ReplaceFrom(_, _, _, _)
\* str.replace with a non-empty old: a left-to-right scan from pos that
\* replaces every non-overlapping occurrence.
ReplaceFrom(s, old, ins, pos) ==
    IF pos > Len(s) THEN <<>>
    ELSE IF MatchAt(s, old, pos)
         THEN ins \o ReplaceFrom(s, old, ins, pos + Len(old))
         ELSE <<s[pos]>> \o ReplaceFrom(s, old, ins, pos + 1)

RECURSIVE Interleave(_, _, _)
\* str.replace with an empty old: new goes after every character (and before
\* the first one, see str_replace).
Interleave(s, ins, pos) ==
    IF pos > Len(s) THEN <<>>
    ELSE <<s[pos]>> \o ins \o Interleave(s, ins, pos + 1)

\* The slip of passing the arguments in the wrong order:
\* anonymized_text.replace(original, placeholder).
str_replace_swapped(s, old, new, i) ==
    IF new = <<>>
    THEN Tagged(old, i) \o Interleave(s, Tagged(old, i), 1)
    ELSE ReplaceFrom(s, new, Tagged(old, i), 1)

\* s.replace(old, new), the inserted characters tagged i.
str_replace(s, old, new, i) ==
    IF old = <<>>
    THEN Tagged(new, i) \o Interleave(s, Tagged(new, i), 1)
    ELSE ReplaceFrom(s, old, Tagged(new, i), 1)

RECURSIVE ReconFrom(_, _, _)
\* The loop of reconstruct_text from pair k on.
ReconFrom(t, entity_mapping, k) ==
    IF k > Len(entity_mapping) THEN t
    ELSE ReconFrom(str_replace(t, entity_mapping[k][1], entity_mapping[k][2], k),
                   entity_mapping, k + 1)

\* reconstruct_text(anonymized_text, entity_mapping) as a function.
reconstruct_text(anonymized_text, entity_mapping) ==
    Chars(ReconFrom(Tagged(anonymized_text, 0), entity_mapping, 1))

\* p occurs in the plain string t.
IsSubstring(p, t) ==
    \E i \in 1..(Len(t) - Len(p) + 1) : \A k \in 1..Len(p) : t[i + k - 1] = p[k]

----------------------------------------------------------------------------
(* reconstruct_text, one loop iteration per step *)

Placeholders == {<<>>, <<"A">>, <<"B">>, <<"A", "B">>}
Originals == {<<>>, <<"B">>, <<"C">>}
InputTexts == SeqsUpTo({"A", "B"}, MaxTextLen)
Mappings == SeqsUpTo(Placeholders \X Originals, MaxPairs)

\* for placeholder, original in entity_mapping:
\*     anonymized_text = anonymized_text.replace(placeholder, original)
ApplyPair ==
    /\ rpc = "loop"
    /\ rk <= Len(rMap)
    /\ rText' = str_replace(rText, rMap[rk][1], rMap[rk][2], rk)
    /\ rk' = rk + 1
    /\ UNCHANGED <<rIn, rMap, rpc, rOut>>
    /\ UNCHANGED runVars

\* return anonymized_text
Return ==
    /\ rpc = "loop"
    /\ rk > Len(rMap)
    /\ rpc' = "returned"
    /\ rOut' = Chars(rText)
    /\ UNCHANGED <<rIn, rMap, rText, rk>>
    /\ UNCHANGED runVars

----------------------------------------------------------------------------
(* Keys and the identity scan *)

Identities == {"alice", "bob"}
Moduli == {1, 2}
CatalogModuli == {1, 2, 3}

NoException == [type |-> "none", msg |-> <<>>]

RsaKey(n) == [pem |-> "rsa", n |-> n]
MissingFile == [pem |-> "missing", n |-> 0]
MalformedPem == [pem |-> "malformed", n |-> 0]

\* load_private_key(private_key_path): open() and load_pem_private_key() raise
\* on a missing file and on a file that is no PEM private key.
load_private_key(file) ==
    IF file.pem = "rsa" THEN [ok |-> TRUE, n |-> file.n, exc |-> NoException]
    ELSE IF file.pem = "missing"
         THEN [ok |-> FALSE, n |-> 0,
               exc |-> [type |-> "FileNotFoundError", msg |-> <<"No such file or directory">>]]
         ELSE [ok |-> FALSE, n |-> 0,
               exc |-> [type |-> "ValueError", msg |-> <<"Could not deserialize key data">>]]

NoMatchingKey ==
    [type |-> "ValueError",
     msg |-> <<"No matching public key found for the provided private key.">>]

RECURSIVE ScanFromRaising(_, _, _)
\* The scan without the except clause: a file that does not load ends it.
ScanFromRaising(private_key, files, i) ==
    IF i > Len(files) THEN [ok |-> FALSE, id |-> "", exc |-> NoMatchingKey]
    ELSE IF files[i].pem # "rsa"
         THEN [ok |-> FALSE, id |-> "",
               exc |-> [type |-> "ValueError", msg |-> <<"Could not deserialize key data">>]]
         ELSE IF private_key.n = files[i].n
              THEN [ok |-> TRUE, id |-> files[i].stem, exc |-> NoException]
              ELSE ScanFromRaising(private_key, files, i + 1)

RECURSIVE ScanFromFirstLoaded(_, _, _)
\* The scan without the comparison of the moduli: the first file that loads wins.
ScanFromFirstLoaded(private_key, files, i) ==
    IF i > Len(files) THEN [ok |-> FALSE, id |-> "", exc |-> NoMatchingKey]
    ELSE IF files[i].pem # "rsa"
         THEN ScanFromFirstLoaded(private_key, files, i + 1)
         ELSE [ok |-> TRUE, id |-> files[i].stem, exc |-> NoException]

RECURSIVE ScanFromDefaulting(_, _, _)
\* The scan that ends with a default identity where the code raises.
ScanFromDefaulting(private_key, files, i) ==
    IF i > Len(files) THEN [ok |-> TRUE, id |-> "unknown", exc |-> NoException]
    ELSE IF files[i].pem # "rsa"
         THEN ScanFromDefaulting(private_key, files, i + 1)
         ELSE IF private_key.n = files[i].n
              THEN [ok |-> TRUE, id |-> files[i].stem, exc |-> NoException]
              ELSE ScanFromDefaulting(private_key, files, i + 1)

RECURSIVE ScanFrom(_, _, _)
\* for public_key_path in Path(public_keys_folder).rglob("*.pem"), from file i:
\* a file that fails to load is passed over (except Exception: continue), the
\* first file with the private key's modulus returns its stem, and the end of
\* the scan raises.
ScanFrom(private_key, files, i) ==
    IF i > Len(files) THEN [ok |-> FALSE, id |-> "", exc |-> NoMatchingKey]
    ELSE IF files[i].pem # "rsa"
         THEN ScanFrom(private_key, files, i + 1)
         ELSE IF private_key.n = files[i].n
              THEN [ok |-> TRUE, id |-> files[i].stem, exc |-> NoException]
              ELSE ScanFrom(private_key, files, i + 1)

\* infer_user_id(private_key_path, public_keys_folder)
infer_user_id(file, files) ==
    LET private_key == load_private_key(file) IN
    IF ~private_key.ok THEN [ok |-> FALSE, id |-> "", exc |-> private_key.exc]
    ELSE ScanFrom(private_key, files, 1)

----------------------------------------------------------------------------
(* Envelopes and hybrid_decrypt *)

\* A wrapped AES key: whether the base64 text decodes, and the modulus of the
\* public key it was encrypted to (0: bytes that no key unwraps).
WrappedKeys == {[b64 |-> TRUE, to |-> 1], [b64 |-> TRUE, to |-> 2],
                [b64 |-> TRUE, to |-> 0], [b64 |-> FALSE, to |-> 0]}
IvForms == {"ok", "badb64", "badsize"}
DataForms == {"ok", "badb64", "badutf8", "badjson"}

PairsAC == << <<<<"A">>, <<"C">>>> >>
PairsABC == << <<<<"A">>, <<"B">>>>, <<<<"B">>, <<"C">>>> >>
Payloads == {PairsAC, PairsABC}

Base64Error == [type |-> "binascii.Error", msg |-> <<"Incorrect padding">>]
OaepError == [type |-> "ValueError", msg |-> <<"Decryption failed">>]
IvSizeError == [type |-> "ValueError", msg |-> <<"Invalid IV size for CFB.">>]
Utf8Error == [type |-> "UnicodeDecodeError", msg |-> <<"'utf-8' codec can't decode byte">>]
JsonError == [type |-> "JSONDecodeError", msg |-> <<"Expecting value">>]
KeyErrorOf(field) == [type |-> "KeyError", msg |-> <<field>>]
NoKeyForUser(uid) ==
    [type |-> "ValueError", msg |-> <<"No encrypted AES key found for user ID: ", uid>>]

Failed(e) == [ok |-> FALSE, value |-> <<>>, exc |-> e]

\* hybrid_decrypt with the envelope decoded before the identity is looked up.
hybrid_decrypt_decode_first(encrypted_package, private_key, uid) ==
    IF encrypted_package.iv = "badb64" THEN Failed(Base64Error)
    ELSE IF encrypted_package.data.form = "badb64" THEN Failed(Base64Error)
    ELSE IF uid \notin DOMAIN encrypted_package.aes_keys THEN Failed(NoKeyForUser(uid))
    ELSE IF ~encrypted_package.aes_keys[uid].b64 THEN Failed(Base64Error)
    ELSE IF encrypted_package.aes_keys[uid].to # private_key.n THEN Failed(OaepError)
    ELSE IF encrypted_package.iv = "badsize" THEN Failed(IvSizeError)
    ELSE IF encrypted_package.data.form = "badutf8" THEN Failed(Utf8Error)
    ELSE IF encrypted_package.data.form = "badjson" THEN Failed(JsonError)
    ELSE [ok |-> TRUE, value |-> encrypted_package.data.pairs, exc |-> NoException]

\* hybrid_decrypt(encrypted_package, private_key, user_id): the steps in the
\* order of the code; the first one that raises decides the exception.
hybrid_decrypt(encrypted_package, private_key, uid) ==
    IF uid \notin DOMAIN encrypted_package.aes_keys THEN Failed(NoKeyForUser(uid))
    ELSE IF ~encrypted_package.aes_keys[uid].b64 THEN Failed(Base64Error)
    ELSE IF encrypted_package.aes_keys[uid].to # private_key.n THEN Failed(OaepError)
    ELSE IF encrypted_package.iv = "badb64" THEN Failed(Base64Error)
    ELSE IF encrypted_package.data.form = "badb64" THEN Failed(Base64Error)
    ELSE IF encrypted_package.iv = "badsize" THEN Failed(IvSizeError)
    ELSE IF encrypted_package.data.form = "badutf8" THEN Failed(Utf8Error)
    ELSE IF encrypted_package.data.form = "badjson" THEN Failed(JsonError)
    ELSE [ok |-> TRUE, value |-> encrypted_package.data.pairs, exc |-> NoException]

----------------------------------------------------------------------------
(* The files of a run *)

AesKeyMaps == UNION {[D -> WrappedKeys] : D \in SUBSET Identities}
DataParts == {[form |-> "ok", pairs |-> p] : p \in Payloads}
             \cup {[form |-> f, pairs |-> <<>>] : f \in DataForms \ {"ok"}}
Envelopes == [aes_keys : AesKeyMaps, iv : IvForms, data : DataParts]

\* The envelope the upstream step makes for alice (modulus 1) and bob (modulus 2).
KeysForAll == [i \in Identities |-> [b64 |-> TRUE, to |-> IF i = "alice" THEN 1 ELSE 2]]
EnvFor(keys, p) == [aes_keys |-> keys, iv |-> "ok", data |-> [form |-> "ok", pairs |-> p]]
EnvGood == EnvFor(KeysForAll, PairsABC)
EnvBobOnly == EnvFor([i \in {"bob"} |-> KeysForAll[i]], PairsABC)
EnvCorruptKey ==
    EnvFor([i \in Identities |-> [b64 |-> TRUE, to |-> IF i = "alice" THEN 0 ELSE 2]], PairsAC)
NullEnv == [aes_keys |-> [i \in {} |-> 0], iv |-> "ok", data |-> [form |-> "badjson", pairs |-> <<>>]]

\* An entry of response_folder.
ResponseFile(dir, stem, suffix, load, text, env) ==
    [dir |-> dir, stem |-> stem, suffix |-> suffix, load |-> load, text |-> text, env |-> env]
PathOf(rec) == <<rec.dir, rec.stem, rec.suffix>>

\* The subdirectory itself, which rglob("*") lists too.
SubDir == ResponseFile("", "sub", "", "ok", <<>>, NullEnv)

JsonRecords(envs, loads) ==
    {ResponseFile(d, "a", ".json", "ok", <<"A", "B">>, e) : d \in {"", "sub"}, e \in envs}
    \cup {ResponseFile(d, "a", ".json", l, <<>>, NullEnv) : d \in {"", "sub"}, l \in loads}
TxtRecords == {ResponseFile("", s, ".txt", "ok", <<"B", "A">>, NullEnv) : s \in {"a", "b"}}

\* The listings rglob can return: no path twice, and a file of the
\* subdirectory only together with the subdirectory.
IsListing(b) ==
    /\ \A i, j \in 1..Len(b) : i # j => PathOf(b[i]) # PathOf(b[j])
    /\ (\E i \in 1..Len(b) : b[i].dir = "sub") => (\E i \in 1..Len(b) : b[i] = SubDir)

MappingFile(load, env) == [load |-> load, env |-> env]
NoMappingFiles == [s \in {} |-> 0]

----------------------------------------------------------------------------
(* process_response_files *)

NoFilesNotice == [kind |-> "NoFiles", path |-> <<"response">>, detail |-> <<>>]

\* Path(reconstructed_folder) / f"{response_file_path.stem}_reconstructed.txt"
output_file(rec) == <<"reconstructed", rec.stem, "_reconstructed.txt">>

\* Path(output_folder) / f"{response_file_path.stem}_processed.json"
mapping_file_path(rec) == rec.stem

Outcome(kind, rec, detail, text) ==
    [kind |-> kind, path |-> PathOf(rec), detail |-> detail, file |-> output_file(rec),
     text |-> text]

\* except Exception as e: print(f"Error processing {response_file_path}: {e}")
OnException(rec, e) == Outcome("Error", rec, e.msg, <<>>)

\* json.load of a record or mapping file and the reads of its fields.
LoadError(load, field) == IF load = "badjson" THEN JsonError ELSE KeyErrorOf(field)

\* The rest of the try block once text and envelope are at hand: decrypt,
\* reconstruct, write, print.
Finish(rec, text, env, private_key, uid) ==
    LET d == hybrid_decrypt(env, private_key, uid) IN
    IF ~d.ok THEN OnException(rec, d.exc)
    ELSE Outcome("Saved", rec, output_file(rec), reconstruct_text(text, d.value))

\* One iteration of the loop over response_files.
ProcessOne(rec, mfiles, private_key, uid) ==
    IF rec.suffix = ".json"
    THEN IF rec.load # "ok"
         THEN OnException(rec, LoadError(rec.load, "anonymized_text"))
         ELSE Finish(rec, rec.text, rec.env, private_key, uid)
    ELSE IF rec.suffix = ".txt"
    THEN IF mapping_file_path(rec) \notin DOMAIN mfiles
         THEN Outcome("MappingMissing", rec, <<>>, <<>>)
         ELSE IF mfiles[mapping_file_path(rec)].load # "ok"
              THEN OnException(rec, LoadError(mfiles[mapping_file_path(rec)].load,
                                              "encrypted_mapping"))
              ELSE Finish(rec, rec.text, mfiles[mapping_file_path(rec)].env, private_key, uid)
    ELSE Outcome("Unsupported", rec, <<>>, <<>>)

\* open(output_file, "w") and write: the file is created or overwritten.
Write(files, file, text) ==
    {f \in files : f.file # file} \cup {[file |-> file, text |-> text]}

Line(o) == [kind |-> o.kind, path |-> o.path, detail |-> o.detail]

\* The start of the run with the identity resolved before the listing is looked at.
StartInferFirst ==
    /\ pc = "start"
    /\ LET r == infer_user_id(keyFile, catalog) IN
       IF ~r.ok
       THEN /\ pc' = "aborted"
            /\ raised' = r.exc
            /\ UNCHANGED <<user_id, printed>>
       ELSE IF batch = <<>>
       THEN /\ pc' = "done"
            /\ printed' = <<NoFilesNotice>>
            /\ UNCHANGED <<user_id, raised>>
       ELSE /\ pc' = "loop"
            /\ user_id' = r.id
            /\ UNCHANGED <<printed, raised>>
    /\ UNCHANGED <<keyFile, catalog, batch, mappingFiles, idx, outputs>>
    /\ UNCHANGED reconVars

\* Lines 93-105: the listing, the notice and return on an empty one, then
\* infer_user_id and load_private_key, whose exceptions leave the function.
Start ==
    /\ pc = "start"
    /\ IF batch = <<>>
       THEN /\ pc' = "done"
            /\ printed' = <<NoFilesNotice>>
            /\ UNCHANGED <<user_id, raised>>
       ELSE LET r == infer_user_id(keyFile, catalog) IN
            IF r.ok
            THEN /\ pc' = "loop"
                 /\ user_id' = r.id
                 /\ UNCHANGED <<printed, raised>>
            ELSE /\ pc' = "aborted"
                 /\ raised' = r.exc
                 /\ UNCHANGED <<user_id, printed>>
    /\ UNCHANGED <<keyFile, catalog, batch, mappingFiles, idx, outputs>>
    /\ UNCHANGED reconVars

\* The loop body with an except clause that lets the exception go on.
ProcessRecordReraising ==
    /\ pc = "loop"
    /\ idx < Len(batch)
    /\ LET o == ProcessOne(batch[idx + 1], mappingFiles, load_private_key(keyFile), user_id) IN
       IF o.kind = "Error"
       THEN /\ pc' = "aborted"
            /\ raised' = [type |-> "Exception", msg |-> o.detail]
            /\ UNCHANGED <<printed, outputs>>
       ELSE /\ printed' = Append(printed, Line(o))
            /\ outputs' = IF o.kind = "Saved" THEN Write(outputs, o.file, o.text) ELSE outputs
            /\ pc' = IF idx + 1 = Len(batch) THEN "done" ELSE "loop"
            /\ UNCHANGED raised
    /\ idx' = idx + 1
    /\ UNCHANGED <<keyFile, catalog, batch, mappingFiles, user_id>>
    /\ UNCHANGED reconVars

\* Lines 107-155: one iteration of the loop; every outcome prints one line and
\* goes on to the next record.
ProcessRecord ==
    /\ pc = "loop"
    /\ idx < Len(batch)
    /\ LET o == ProcessOne(batch[idx + 1], mappingFiles, load_private_key(keyFile), user_id) IN
       /\ printed' = Append(printed, Line(o))
       /\ outputs' = IF o.kind = "Saved" THEN Write(outputs, o.file, o.text) ELSE outputs
    /\ idx' = idx + 1
    /\ pc' = IF idx + 1 = Len(batch) THEN "done" ELSE "loop"
    /\ UNCHANGED <<keyFile, catalog, batch, mappingFiles, user_id, raised>>
    /\ UNCHANGED reconVars

----------------------------------------------------------------------------
(* Specifications *)

PubKey(stem, pem, n) == [stem |-> stem, pem |-> pem, n |-> n]
CatalogAliceBob == <<PubKey("alice", "rsa", 1), PubKey("bob", "rsa", 2)>>

ReconIdle ==
    /\ rIn = <<>>
    /\ rMap = <<>>
    /\ rText = <<>>
    /\ rk = 1
    /\ rpc = "idle"
    /\ rOut = <<>>

RunStart ==
    /\ pc = "start"
    /\ user_id = ""
    /\ idx = 0
    /\ outputs = {}
    /\ printed = <<>>
    /\ raised = NoException

\* Runs over every listing of up to MaxRecords entries.
Init ==
    /\ keyFile \in {RsaKey(1), MissingFile}
    /\ catalog \in {CatalogAliceBob, <<PubKey("bob", "rsa", 2)>>}
    /\ batch \in {b \in SeqsUpTo(JsonRecords({EnvGood, EnvBobOnly, EnvCorruptKey}, {"badjson"})
                                   \cup TxtRecords \cup {SubDir}, MaxRecords) : IsListing(b)}
    /\ mappingFiles \in {NoMappingFiles,
                         [s \in {"a"} |-> MappingFile("badjson", NullEnv)],
                         [s \in {"a"} |-> MappingFile("ok", EnvGood)],
                         [s \in {"a", "b"} |-> MappingFile("ok", EnvFor(KeysForAll, PairsAC))]}
    /\ RunStart
    /\ ReconIdle

\* Runs over every private key file and every catalog of up to MaxCatalog files.
InitInfer ==
    /\ keyFile \in {RsaKey(n) : n \in Moduli} \cup {MissingFile, MalformedPem}
    /\ catalog \in SeqsUpTo({PubKey(s, "rsa", n) : s \in Identities, n \in CatalogModuli}
                            \cup {PubKey(s, "malformed", 0) : s \in Identities}, MaxCatalog)
    /\ batch \in {<<>>,
                  <<ResponseFile("", "a", ".json", "ok", <<"A", "B">>, EnvGood)>>,
                  <<ResponseFile("", "a", ".json", "badjson", <<>>, NullEnv),
                    ResponseFile("", "b", ".json", "ok", <<"A", "B">>, EnvGood)>>}
    /\ mappingFiles = NoMappingFiles
    /\ RunStart
    /\ ReconIdle

\* Runs over one record of either form with every envelope.
InitDecrypt ==
    /\ keyFile \in {RsaKey(n) : n \in Moduli}
    /\ catalog = CatalogAliceBob
    /\ \E e \in Envelopes, l \in {"ok", "badjson", "nofield"} :
         \/ /\ batch = <<ResponseFile("", "a", ".json", l, <<"A", "B">>, e)>>
            /\ mappingFiles = NoMappingFiles
         \/ /\ batch = <<ResponseFile("", "a", ".txt", "ok", <<"A", "B">>, NullEnv)>>
            /\ mappingFiles = [s \in {"a"} |-> MappingFile(l, e)]
    /\ RunStart
    /\ ReconIdle

\* reconstruct_text over every text and mapping within the bounds.
InitRecon ==
    /\ rIn \in InputTexts
    /\ rMap \in Mappings
    /\ rText = Tagged(rIn, 0)
    /\ rk = 1
    /\ rpc = "loop"
    /\ rOut = <<>>
    /\ keyFile = MissingFile
    /\ catalog = <<>>
    /\ batch = <<>>
    /\ mappingFiles = NoMappingFiles
    /\ pc = "idle"
    /\ user_id = ""
    /\ idx = 0
    /\ outputs = {}
    /\ printed = <<>>
    /\ raised = NoException

Next == Start \/ ProcessRecord
NextRecon == ApplyPair \/ Return

Spec == Init /\ [][Next]_vars
SpecInfer == InitInfer /\ [][Next]_vars
SpecDecrypt == InitDecrypt /\ [][Next]_vars
SpecRecon == InitRecon /\ [][NextRecon]_vars

----------------------------------------------------------------------------
(* Properties of the run *)

PrivateKey == load_private_key(keyFile)

\* An envelope every step of the decryption accepts for the resolved identity.
UsableEnv(env) ==
    /\ user_id \in DOMAIN env.aes_keys
    /\ env.aes_keys[user_id].b64
    /\ env.aes_keys[user_id].to = keyFile.n
    /\ env.iv = "ok"
    /\ env.data.form = "ok"

\* The record or its mapping file is read up to the envelope.
ReachesDecrypt(rec) ==
    \/ rec.suffix = ".json" /\ rec.load = "ok"
    \/ /\ rec.suffix = ".txt"
       /\ rec.stem \in DOMAIN mappingFiles
       /\ mappingFiles[rec.stem].load = "ok"

EnvOf(rec) == IF rec.suffix = ".json" THEN rec.env ELSE mappingFiles[rec.stem].env

\* A record none of the per-record failures applies to.
Healthy(rec) == ReachesDecrypt(rec) /\ UsableEnv(EnvOf(rec))

ExpectedText(rec) == reconstruct_text(rec.text, EnvOf(rec).data.pairs)

RECURSIVE WrittenBy(_, _)
\* The reconstructed folder after the first n records of b, all of them healthy.
WrittenBy(b, n) ==
    IF n = 0 THEN {}
    ELSE Write(WrittenBy(b, n - 1), output_file(b[n]), ExpectedText(b[n]))

Visited == SubSeq(batch, 1, idx)
SavedLines == {i \in 1..Len(printed) : printed[i].kind = "Saved"}

\* C1: in a run over a non-empty listing every record is visited and ends in
\* exactly one printed outcome (saved, error, skip notice), saved exactly when
\* no failure applies to it; no record's failure ends the run; and the files
\* written are those of the run over the healthy records alone.
C1_BatchIsolation ==
    /\ pc = "aborted" => idx = 0
    /\ (pc \in {"loop", "done"} /\ batch # <<>>) =>
          /\ Len(printed) = idx
          /\ raised = NoException
          /\ \A i \in 1..idx :
                /\ printed[i].path = PathOf(batch[i])
                /\ printed[i].kind \in {"Saved", "Error", "MappingMissing", "Unsupported"}
                /\ printed[i].kind = "Saved" <=> Healthy(batch[i])
          /\ LET healthy == SelectSeq(Visited, Healthy) IN
             outputs = WrittenBy(healthy, Len(healthy))
    /\ (pc = "done" /\ batch # <<>>) => idx = Len(batch)

\* Three records, the second a self-contained record with a corrupt envelope:
\* two files written, one error printed.
C1_Witness ==
    /\ pc = "done"
    /\ Len(batch) = 3
    /\ Healthy(batch[1])
    /\ batch[2].suffix = ".json" /\ batch[2].load = "ok" /\ ~Healthy(batch[2])
    /\ Healthy(batch[3])
    /\ printed[2].kind = "Error"
    /\ Cardinality(outputs) = 2

KeyFails == ~PrivateKey.ok
Matches == {i \in 1..Len(catalog) : catalog[i].pem = "rsa" /\ catalog[i].n = keyFile.n}
NoMatch == ~KeyFails /\ Matches = {}

\* C2 as stated: whenever the private key does not load or no public key has
\* its modulus, the run aborts with the failure raised, nothing printed for a
\* record and nothing written.
C2_AbortAlways ==
    ((KeyFails \/ NoMatch) /\ pc # "start") =>
        /\ pc = "aborted"
        /\ raised = (IF KeyFails THEN PrivateKey.exc ELSE NoMatchingKey)
        /\ outputs = {}
        /\ idx = 0

\* C2, amended: the same for a run over a non-empty listing (an empty one
\* returns before the key is looked at).
C2_AbortNonEmpty ==
    ((KeyFails \/ NoMatch) /\ batch # <<>> /\ pc # "start") =>
        /\ pc = "aborted"
        /\ raised = (IF KeyFails THEN PrivateKey.exc ELSE NoMatchingKey)
        /\ printed = <<>>
        /\ outputs = {}
        /\ idx = 0

C2_Witness ==
    /\ pc = "aborted"
    /\ Len(batch) = 2
    /\ catalog # <<>>
    /\ raised = NoMatchingKey

\* C3: a run over an empty listing prints the one notice, writes nothing and
\* raises nothing, whatever the private key file and the catalog are.
C3_EmptyInput ==
    batch = <<>> =>
        /\ pc \in {"start", "done"}
        /\ pc = "done" => printed = <<NoFilesNotice>>
        /\ outputs = {}
        /\ raised = NoException

C3_Witness ==
    /\ batch = <<>>
    /\ pc = "done"
    /\ KeyFails
    /\ printed = <<NoFilesNotice>>

AllLoad == \A i \in 1..Len(catalog) : catalog[i].pem = "rsa"

\* C4: with a catalog of loadable public keys of which exactly one has the
\* private key's modulus, the scan returns that file's stem wherever the file
\* is in the scan order; with none, it raises the no-matching error.
C4_IdentityResolution ==
    (~KeyFails /\ AllLoad /\ batch # <<>> /\ pc # "start") =>
        /\ Cardinality(Matches) = 1 =>
              /\ pc \in {"loop", "done"}
              /\ \A i \in Matches : user_id = catalog[i].stem
        /\ Matches = {} => (pc = "aborted" /\ raised = NoMatchingKey)

C4_Witness ==
    /\ pc = "loop"
    /\ AllLoad
    /\ Len(catalog) = 3
    /\ Matches = {3}
    /\ catalog[1].n # catalog[2].n
    /\ user_id = catalog[3].stem
    /\ catalog[1].stem # user_id

FirstMatch == CHOOSE i \in Matches : \A j \in Matches : i <= j

\* C10: with at least one public-key file that does not load, anywhere in the
\* scan order, the scan still returns the identity of the matching key, and
\* nothing is raised or printed for the files that do not load.
C10_SkipUnparsable ==
    (~KeyFails /\ ~AllLoad /\ Matches # {} /\ batch # <<>> /\ pc # "start") =>
        /\ pc \in {"loop", "done"}
        /\ user_id = catalog[FirstMatch].stem
        /\ raised = NoException
        /\ Len(printed) = idx
        /\ \A i \in 1..Len(printed) : printed[i].path = PathOf(batch[i])

C10_Witness ==
    /\ pc = "done"
    /\ Len(catalog) = 3
    /\ catalog[1].pem = "malformed"
    /\ Matches = {2}
    /\ catalog[3].pem = "malformed"
    /\ user_id = catalog[2].stem
    /\ printed[1].kind = "Saved"

GenericFailures == {Base64Error, OaepError, IvSizeError, Utf8Error, JsonError}

\* C5: a record whose envelope has no wrapped key for the resolved identity
\* is reported with the no-key-for-user error, which is none of the
\* decryption failures, whatever the state of the wrapped keys of others, of
\* the IV and of the ciphertext.
C5_IdentityNotInEnvelope ==
    (idx = 1 /\ ReachesDecrypt(batch[1]) /\ user_id \notin DOMAIN EnvOf(batch[1]).aes_keys) =>
        /\ printed[1].kind = "Error"
        /\ printed[1].detail = NoKeyForUser(user_id).msg
        /\ \A e \in GenericFailures : printed[1].detail # e.msg
        /\ outputs = {}

C5_Witness ==
    /\ idx = 1
    /\ batch[1].suffix = ".txt"
    /\ ReachesDecrypt(batch[1])
    /\ DOMAIN EnvOf(batch[1]).aes_keys = {"bob"}
    /\ ~EnvOf(batch[1]).aes_keys["bob"].b64
    /\ EnvOf(batch[1]).iv = "badb64"
    /\ EnvOf(batch[1]).data.form = "badb64"
    /\ printed[1].detail = NoKeyForUser("alice").msg

\* C9: a record that fails inside hybrid_decrypt after the identity lookup is
\* reported with the same message as a record with any other envelope that
\* fails there.
C9_SingleDecryptionFailure ==
    (/\ idx = 1
     /\ ReachesDecrypt(batch[1])
     /\ user_id \in DOMAIN EnvOf(batch[1]).aes_keys
     /\ printed[1].kind = "Error") =>
        \A e \in Envelopes :
            (user_id \in DOMAIN e.aes_keys /\ ~hybrid_decrypt(e, PrivateKey, user_id).ok) =>
                hybrid_decrypt(e, PrivateKey, user_id).exc.msg = printed[1].detail

\* C8: any two different records of the listing that were saved were written
\* to different files, and there are as many files as saved records.
C8_DistinctOutputs ==
    pc = "done" =>
        /\ \A i, j \in SavedLines : i # j => output_file(batch[i]) # output_file(batch[j])
        /\ Cardinality(outputs) = Cardinality(SavedLines)

----------------------------------------------------------------------------
(* Properties of reconstruct_text *)

\* No placeholder of the mapping occurs in the text.
NoPlaceholderIn(t, m) == \A i \in 1..Len(m) : ~IsSubstring(m[i][1], t)

\* No placeholder of the mapping is a substring of an original value of it.
SubstringFree(m) == \A i, j \in 1..Len(m) : ~IsSubstring(m[i][1], m[j][2])

\* C6 as stated: with no placeholder a substring of any original value, a
\* second reconstruction changes nothing; with the empty mapping the first
\* changes nothing.
C6_Idempotent ==
    rpc = "returned" =>
        /\ SubstringFree(rMap) => reconstruct_text(rOut, rMap) = rOut
        /\ rMap = <<>> => rOut = rIn

\* C6, amended: a text in which no placeholder occurs is left unchanged, so a
\* second reconstruction changes nothing when no placeholder occurs in the
\* result of the first; with the empty mapping the first changes nothing.
C6_IdempotentOnceClean ==
    rpc = "returned" =>
        /\ NoPlaceholderIn(rIn, rMap) => rOut = rIn
        /\ NoPlaceholderIn(rOut, rMap) => reconstruct_text(rOut, rMap) = rOut
        /\ rMap = <<>> => rOut = rIn

C6_Witness ==
    /\ rpc = "returned"
    /\ Len(rMap) = 2
    /\ SubstringFree(rMap)
    /\ NoPlaceholderIn(rOut, rMap)
    /\ rOut # rIn
    /\ reconstruct_text(rOut, rMap) = rOut

\* The characters of the text that pair i inserted.
InsertedBy(t, i) == SelectSeq(t, LAMBDA c : c.by = i)

\* C7: a step of the loop leaves the characters that earlier pairs inserted
\* as they are.
C7_NoRematch ==
    [][\A i \in 1..Len(rMap) : i < rk => InsertedBy(rText', i) = InsertedBy(rText, i)]_vars

====
